---- MODULE Spec2Model ----
(***************************************************************************)
(* A model of the WordPress MCP servers of this repository:                *)
(*   - WPCLIExecutor (wp-cli-tools.js): strategy detection and runCommand;  *)
(*   - WordPressAdminServer (wp-admin-mcp.js): tool registry and dispatch   *)
(*     in front of the executor;                                           *)
(*   - WordPressDatabaseServer (enhanced-wp-mcp.js) and the first database  *)
(*     server (unnamed/part_000): tool dispatch in front of mysql.          *)
(*                                                                         *)
(* Text.  A JavaScript string is modelled as a sequence of chunks, each a   *)
(* non-empty piece of the text; concatenation is \o.  The string            *)
(* operations of the code (includes, startsWith, split, trim, toLowerCase)  *)
(* work chunk by chunk, and the inputs are written so that every boundary   *)
(* these operations look at is a chunk boundary (a query is written one     *)
(* character per chunk, a path one chunk per separator and per name).       *)
(***************************************************************************)
EXTENDS Naturals, Sequences, FiniteSets, TLC

(* ------------------------------------------------------------------ *)
(* Bounds of the model                                                 *)
(* ------------------------------------------------------------------ *)

\* longest container listing `docker ps` prints during detection
MaxContainers == 2

(* ------------------------------------------------------------------ *)
(* JavaScript strings and values                                       *)
(* ------------------------------------------------------------------ *)

RECURSIVE includesAt(_, _, _)
includesAt(s, frag, i) ==
    IF i + Len(frag) - 1 > Len(s) THEN FALSE
    ELSE IF SubSeq(s, i, i + Len(frag) - 1) = frag THEN TRUE
    ELSE includesAt(s, frag, i + 1)

\* String.prototype.includes
includes(s, frag) == includesAt(s, frag, 1)

\* String.prototype.startsWith
startsWith(s, prefix) ==
    Len(prefix) <= Len(s) /\ SubSeq(s, 1, Len(prefix)) = prefix

\* String.prototype.split(sep), sep one chunk: the pieces between separators
RECURSIVE splitFrom(_, _, _, _)
splitFrom(s, sep, i, cur) ==
    IF i > Len(s) THEN <<cur>>
    ELSE IF s[i] = sep THEN <<cur>> \o splitFrom(s, sep, i + 1, <<>>)
    ELSE splitFrom(s, sep, i + 1, Append(cur, s[i]))

split(s, sep) == splitFrom(s, sep, 1, <<>>)

\* Array.prototype.filter(name => name.includes(frag))
RECURSIVE filterIncludes(_, _)
filterIncludes(arr, frag) ==
    IF arr = <<>> THEN <<>>
    ELSE (IF includes(Head(arr), frag) THEN <<Head(arr)>> ELSE <<>>)
         \o filterIncludes(Tail(arr), frag)

\* the 1-based position of the first element equal to x, 0 when there is none
RECURSIVE findIndexFrom(_, _, _)
findIndexFrom(arr, x, i) ==
    IF i > Len(arr) THEN 0
    ELSE IF arr[i] = x THEN i
    ELSE findIndexFrom(arr, x, i + 1)

\* findIndex(part => part === x) + 1: JavaScript counts from 0 and gives -1
\* when there is none, so the sum is the 1-based position, or 0
findIndexPlusOne(arr, x) == findIndexFrom(arr, x, 1)

\* Array.prototype.join
RECURSIVE join(_, _)
join(arr, sep) ==
    IF arr = <<>> THEN <<>>
    ELSE IF Len(arr) = 1 THEN Head(arr)
    ELSE Head(arr) \o sep \o join(Tail(arr), sep)

\* JavaScript values: a type tag and the text a template literal renders
Str(s)    == [t |-> "string", v |-> s]
Num(s)    == [t |-> "number", v |-> s]
Bool(b)   == [t |-> "boolean", v |-> IF b THEN <<"true">> ELSE <<"false">>]
Undefined == [t |-> "undefined", v |-> <<"undefined">>]
Null      == [t |-> "null", v |-> <<"null">>]

\* `${value}`
ToStr(value) == value.v

\* ToBoolean(value)
Truthy(value) ==
    CASE value.t = "string"  -> value.v # <<>>
      [] value.t = "number"  -> value.v # <<"0">>
      [] value.t = "boolean" -> value.v = <<"true">>
      [] OTHER               -> FALSE

(* ------------------------------------------------------------------ *)
(* WPCLIExecutor: construction and strategy detection                   *)
(* ------------------------------------------------------------------ *)

\* const localAppsPath = '/Users/developerjillur/Local Sites'
localAppsPath == <<"/", "Users", "/", "developerjillur", "/", "Local Sites">>

\* the working directories path.resolve(wpPath) can give (absolute paths)
WpPaths ==
    { <<"/", "var", "/", "www">>,
      localAppsPath \o <<"/", "shop", "/", "app">>,
      localAppsPath,
      localAppsPath \o <<" Old", "/", "shop">> }

ContainerNames == { <<"shop", "-web">>, <<"blog", "-web">> }

RECURSIVE SeqsUpTo(_, _)
SeqsUpTo(S, n) ==
    IF n = 0 THEN { <<>> }
    ELSE LET shorter == SeqsUpTo(S, n - 1)
         IN  shorter \cup { Append(l, x) : l \in shorter, x \in S }

\* stdout of `docker ps --format "{{.Names}}"`: one line per running container
RECURSIVE dockerLines(_)
dockerLines(names) ==
    IF names = <<>> THEN <<>>
    ELSE Head(names) \o <<"\n">> \o dockerLines(Tail(names))

\* what the host can answer to the three probes of one detection
Environments ==
    [ wpInfo   : BOOLEAN,                       \* `wp --info` exits cleanly
      docker   : BOOLEAN,                       \* `docker ps` exits cleanly
      listing  : SeqsUpTo(ContainerNames, MaxContainers),
      pharFile : BOOLEAN ]                      \* fs.access(wp-cli.phar) succeeds

\* constructor(wpPath = '../')
WPCLIExecutor(wpPath) ==
    [ wpPath          |-> wpPath,
      localWPCLIPath  |-> Null,
      dockerContainer |-> Null,
      wpCliMethod     |-> Undefined ]

\* detectLocalByFlywheel() without its wpPath.includes(localAppsPath) test:
\* the containers are listed whatever the directory
detectAnyDirectory(self, env) ==
    LET pathParts     == split(self.wpPath, "/")
        siteNameIndex == findIndexPlusOne(pathParts, <<"Local Sites">>)
        siteName      == pathParts[siteNameIndex + 1]
        dockerOutput  == dockerLines(env.listing)
        containers    == filterIncludes(split(dockerOutput, "\n"), siteName)
    IN  IF siteNameIndex < Len(pathParts)
        THEN IF ~env.docker
             THEN [ self |-> self, found |-> FALSE, ran |-> <<"docker ps">> ]
             ELSE IF Len(containers) > 0
             THEN [ self  |-> [self EXCEPT !.dockerContainer = Str(containers[1]),
                                           !.wpCliMethod = Str(<<"docker">>)],
                    found |-> TRUE, ran |-> <<"docker ps">> ]
             ELSE [ self |-> self, found |-> FALSE, ran |-> <<"docker ps">> ]
        ELSE [ self |-> self, found |-> FALSE, ran |-> <<>> ]

\* detectLocalByFlywheel(): the executor after it, its result, the commands it ran
detectLocalByFlywheel(self, env) ==
    LET pathParts     == split(self.wpPath, "/")
        siteNameIndex == findIndexPlusOne(pathParts, <<"Local Sites">>)
        siteName      == pathParts[siteNameIndex + 1]
        dockerOutput  == dockerLines(env.listing)
        containers    == filterIncludes(split(dockerOutput, "\n"), siteName)
    IN  IF includes(self.wpPath, localAppsPath) /\ siteNameIndex < Len(pathParts)
        THEN IF ~env.docker
             THEN [ self |-> self, found |-> FALSE, ran |-> <<"docker ps">> ]
             ELSE IF Len(containers) > 0
             THEN [ self  |-> [self EXCEPT !.dockerContainer = Str(containers[1]),
                                           !.wpCliMethod = Str(<<"docker">>)],
                    found |-> TRUE, ran |-> <<"docker ps">> ]
             ELSE [ self |-> self, found |-> FALSE, ran |-> <<"docker ps">> ]
        ELSE [ self |-> self, found |-> FALSE, ran |-> <<>> ]

\* one entry of the detection log: the strategy probed and whether it succeeded
Probe(strategy, ok) == [ strategy |-> strategy, ok |-> ok ]

\* initialize() without the `return` after the first probe: a direct success
\* falls through to the Local by Flywheel check
initializeFallingThrough(self, env) ==
    LET direct   == [self EXCEPT !.wpCliMethod = Str(<<"direct">>)]
        flywheel == detectLocalByFlywheel(IF env.wpInfo THEN direct ELSE self, env)
    IN  IF flywheel.found
        THEN [ self   |-> flywheel.self,
               threw  |-> FALSE,
               probes |-> << Probe("direct", env.wpInfo), Probe("docker", TRUE) >>,
               ran    |-> << "wp --info" >> \o flywheel.ran ]
        ELSE IF env.wpInfo
        THEN [ self   |-> direct,
               threw  |-> FALSE,
               probes |-> << Probe("direct", TRUE) >>,
               ran    |-> << "wp --info" >> ]
        ELSE IF env.pharFile
        THEN [ self   |-> [self EXCEPT !.wpCliMethod = Str(<<"phar">>)],
               threw  |-> FALSE,
               probes |-> << Probe("direct", FALSE), Probe("docker", FALSE),
                             Probe("phar", TRUE) >>,
               ran    |-> << "wp --info" >> \o flywheel.ran \o << "fs.access" >> ]
        ELSE [ self   |-> self,
               threw  |-> TRUE,
               probes |-> << Probe("direct", FALSE), Probe("docker", FALSE),
                             Probe("phar", FALSE) >>,
               ran    |-> << "wp --info" >> \o flywheel.ran \o << "fs.access" >> ]

\* initialize(): the executor after it, whether it threw, the probes it made in
\* the order it made them, the commands and file checks it ran
initialize(self, env) ==
    LET flywheel == detectLocalByFlywheel(self, env)
    IN  IF env.wpInfo
        THEN [ self   |-> [self EXCEPT !.wpCliMethod = Str(<<"direct">>)],
               threw  |-> FALSE,
               probes |-> << Probe("direct", TRUE) >>,
               ran    |-> << "wp --info" >> ]
        ELSE IF flywheel.found
        THEN [ self   |-> flywheel.self,
               threw  |-> FALSE,
               probes |-> << Probe("direct", FALSE), Probe("docker", TRUE) >>,
               ran    |-> << "wp --info" >> \o flywheel.ran ]
        ELSE IF env.pharFile
        THEN [ self   |-> [flywheel.self EXCEPT !.wpCliMethod = Str(<<"phar">>)],
               threw  |-> FALSE,
               probes |-> << Probe("direct", FALSE), Probe("docker", FALSE),
                             Probe("phar", TRUE) >>,
               ran    |-> << "wp --info" >> \o flywheel.ran \o << "fs.access" >> ]
        ELSE [ self   |-> flywheel.self,
               threw  |-> TRUE,
               probes |-> << Probe("direct", FALSE), Probe("docker", FALSE),
                             Probe("phar", FALSE) >>,
               ran    |-> << "wp --info" >> \o flywheel.ran \o << "fs.access" >> ]

(* ------------------------------------------------------------------ *)
(* WPCLIExecutor.runCommand                                             *)
(* ------------------------------------------------------------------ *)

\* An object literal is the sequence of its entries [k, v] in insertion order.
Entry(k, v) == [k |-> k, v |-> v]

Keys(obj) == { obj[i].k : i \in 1..Len(obj) }

\* obj[k]; undefined when obj has no such property
Get(obj, k) ==
    IF k \in Keys(obj)
    THEN obj[CHOOSE i \in 1..Len(obj) : obj[i].k = k].v
    ELSE Undefined

\* const { k, ...rest } = obj: the entries other than those named
RECURSIVE Rest(_, _)
Rest(obj, named) ==
    IF obj = <<>> THEN <<>>
    ELSE (IF Head(obj).k \in named THEN <<>> ELSE <<Head(obj)>>) \o Rest(Tail(obj), named)

\* { ...a, ...b }: a later value replaces an earlier one in its place
RECURSIVE Spread(_, _)
Spread(a, b) ==
    IF b = <<>> THEN a
    ELSE LET e == Head(b)
             put == IF e.k \in Keys(a)
                    THEN [ i \in 1..Len(a) |-> IF a[i].k = e.k THEN e ELSE a[i] ]
                    ELSE Append(a, e)
         IN  Spread(put, Tail(b))

\* a destructuring default: `x = dflt` applies when the property is undefined
OrDefault(value, dflt) == IF value = Undefined THEN dflt ELSE value

Whitespace == { " ", "\n", "\t" }

RECURSIVE trimStart(_)
trimStart(s) ==
    IF s # <<>> /\ Head(s) \in Whitespace THEN trimStart(Tail(s)) ELSE s

RECURSIVE trimEnd(_)
trimEnd(s) ==
    IF s # <<>> /\ s[Len(s)] \in Whitespace THEN trimEnd(SubSeq(s, 1, Len(s) - 1)) ELSE s

\* String.prototype.trim
trim(s) == trimEnd(trimStart(s))

\* the documents JSON.parse accepts among the outputs modelled
JsonDocuments == { "[1]", "{}" }

\* a parser that takes any text for a document
parsesAnything(text) == TRUE

\* JSON.parse(text) does not throw
parsesAsJson(text) ==
    LET doc == trim(text) IN Len(doc) = 1 /\ doc[1] \in JsonDocuments

\* what a child process can do: exit with a status, having written standard
\* output and standard error, or never exit
ChildResult(code, stdout, stderr) ==
    [ code |-> code, stdout |-> stdout, stderr |-> stderr, exits |-> TRUE ]

\* a child process that never exits (it waits for input, or loops)
NeverExits == [ code |-> 0, stdout |-> <<>>, stderr |-> <<>>, exits |-> FALSE ]

ChildResults ==
    { ChildResult(0, <<"[1]">>, <<>>),
      ChildResult(0, <<"Success", "\n">>, <<>>),
      ChildResult(0, <<>>, <<>>),
      ChildResult(0, <<"[1]">>, <<"Warning:", " deprecated">>),
      ChildResult(0, <<"[1]">>, <<"Error:", " fatal">>),
      ChildResult(0, <<"[1]">>, <<"Warning:", " deprecated", "\n", "Error:", " fatal">>),
      ChildResult(0, <<" ", "\n">>, <<>>),
      ChildResult(1, <<>>, <<"Error:", " fatal">>) }

\* what a method hands back: a value returned or an error thrown, the commands
\* it started as child processes (in order), and the executor afterwards
Returned(self, kind, text, error, ran) ==
    [ self |-> self, threw |-> FALSE, kind |-> kind, text |-> text, error |-> error,
      ran |-> ran ]

Threw(self, message, ran) ==
    [ self |-> self, threw |-> TRUE, kind |-> "Error", text |-> <<>>, error |-> message,
      ran |-> ran ]

\* `await execPromise(fullCommand)` that has not settled: the method has not
\* returned, its child process is running
Pending(self, ran) ==
    [ self |-> self, threw |-> FALSE, kind |-> "pending", text |-> <<>>, error |-> <<>>,
      ran |-> ran ]

NoMethodMessage == <<"No WP-CLI execution method configured">>

ParseFailedMessage == <<"Failed to parse JSON output">>

\* the rendering without the boolean case: every option becomes --key="value"
optionTokenWithoutBooleans(e) == <<"--", e.k, "=\"">> \o ToStr(e.v) \o <<"\"">>

\* one option as runCommand renders it; '' for a false boolean
optionToken(e) ==
    IF e.v.t = "boolean"
    THEN (IF e.v = Bool(TRUE) THEN <<"--", e.k>> ELSE <<>>)
    ELSE <<"--", e.k, "=\"">> \o ToStr(e.v) \o <<"\"">>

\* Object.entries(otherOptions).map(...).filter(Boolean)
RECURSIVE optionTokens(_)
optionTokens(otherOptions) ==
    IF otherOptions = <<>> THEN <<>>
    ELSE LET tok == optionToken(Head(otherOptions))
         IN  (IF tok = <<>> THEN <<>> ELSE <<tok>>) \o optionTokens(Tail(otherOptions))

\* const format = options.format || 'json': every falsy format becomes json
formatOrJson(options) ==
    IF Truthy(Get(options, "format")) THEN Get(options, "format") ELSE Str(<<"json">>)

\* const { format = 'json', ...otherOptions } = options
formatOf(options) == OrDefault(Get(options, "format"), Str(<<"json">>))

\* const formatFlag = format ? `--format=${format}` : ''
formatFlag(format) == IF Truthy(format) THEN <<"--format=">> \o ToStr(format) ELSE <<>>

\* `${command} ${args} ${formatFlag}`
commandTail(command, options) ==
    command \o <<" ">> \o join(optionTokens(Rest(options, {"format"})), <<" ">>)
            \o <<" ">> \o formatFlag(formatOf(options))

\* the switch with a default branch that runs the bare command instead of
\* throwing
withMethodDefaultingToDirect(self, tail) ==
    CASE self.wpCliMethod = Str(<<"direct">>) ->
           <<"cd ">> \o self.wpPath \o <<" && wp ">> \o tail
      [] self.wpCliMethod = Str(<<"docker">>) ->
           <<"docker exec -it ">> \o ToStr(self.dockerContainer) \o <<" wp ">> \o tail
      [] self.wpCliMethod = Str(<<"phar">>) ->
           <<"cd ">> \o self.wpPath \o <<" && php wp-cli.phar ">> \o tail
      [] OTHER -> <<"wp ">> \o tail

\* the switch on this.wpCliMethod; <<>> stands for the default branch, which
\* throws before any command line is built
withMethod(self, tail) ==
    CASE self.wpCliMethod = Str(<<"direct">>) ->
           <<"cd ">> \o self.wpPath \o <<" && wp ">> \o tail
      [] self.wpCliMethod = Str(<<"docker">>) ->
           <<"docker exec -it ">> \o ToStr(self.dockerContainer) \o <<" wp ">> \o tail
      [] self.wpCliMethod = Str(<<"phar">>) ->
           <<"cd ">> \o self.wpPath \o <<" && php wp-cli.phar ">> \o tail
      [] OTHER -> <<>>

\* the command line runCommand builds, or <<>> when no method is configured
fullCommand(self, command, options) == withMethod(self, commandTail(command, options))

\* the message of the error child_process.exec rejects with on a non-zero exit
execFailedMessage(cmd, child) == <<"Command failed: ">> \o cmd \o <<"\n">> \o child.stderr

\* runCommand that, finding no method configured, settles on the direct one for
\* the calls to come before it throws
executeSwitchingStrategy(self, format, cmd, child) ==
    IF cmd = <<>>
    THEN Threw([self EXCEPT !.wpCliMethod = Str(<<"direct">>)], NoMethodMessage, <<>>)
    ELSE IF ~child.exits
    THEN Pending(self, <<cmd>>)
    ELSE IF child.code # 0
    THEN Threw(self, execFailedMessage(cmd, child), <<cmd>>)
    ELSE IF child.stderr # <<>> /\ ~includes(child.stderr, <<"Warning:">>)
    THEN Threw(self, child.stderr, <<cmd>>)
    ELSE IF format = Str(<<"json">>) /\ trim(child.stdout) # <<>>
    THEN (IF parsesAsJson(child.stdout)
          THEN Returned(self, "json", child.stdout, <<>>, <<cmd>>)
          ELSE Returned(self, "raw", child.stdout, ParseFailedMessage, <<cmd>>))
    ELSE Returned(self, "output", child.stdout, <<>>, <<cmd>>)

\* runCommand that throws on any text on standard error
executeFailingOnStderr(self, format, cmd, child) ==
    IF cmd = <<>>
    THEN Threw(self, NoMethodMessage, <<>>)
    ELSE IF ~child.exits
    THEN Pending(self, <<cmd>>)
    ELSE IF child.code # 0
    THEN Threw(self, execFailedMessage(cmd, child), <<cmd>>)
    ELSE IF child.stderr # <<>>
    THEN Threw(self, child.stderr, <<cmd>>)
    ELSE IF format = Str(<<"json">>) /\ trim(child.stdout) # <<>>
    THEN (IF parsesAsJson(child.stdout)
          THEN Returned(self, "json", child.stdout, <<>>, <<cmd>>)
          ELSE Returned(self, "raw", child.stdout, ParseFailedMessage, <<cmd>>))
    ELSE Returned(self, "output", child.stdout, <<>>, <<cmd>>)

\* runCommand from the switch on: the child process answers cmd with `child`
execute(self, format, cmd, child) ==
    IF cmd = <<>>
    THEN Threw(self, NoMethodMessage, <<>>)
    ELSE IF ~child.exits
    THEN Pending(self, <<cmd>>)
    ELSE IF child.code # 0
    THEN Threw(self, execFailedMessage(cmd, child), <<cmd>>)
    ELSE IF child.stderr # <<>> /\ ~includes(child.stderr, <<"Warning:">>)
    THEN Threw(self, child.stderr, <<cmd>>)
    ELSE IF format = Str(<<"json">>) /\ trim(child.stdout) # <<>>
    THEN (IF parsesAsJson(child.stdout)
          THEN Returned(self, "json", child.stdout, <<>>, <<cmd>>)
          ELSE Returned(self, "raw", child.stdout, ParseFailedMessage, <<cmd>>))
    ELSE Returned(self, "output", child.stdout, <<>>, <<cmd>>)

\* runCommand(command, options), the child process answering with `child`
runCommand(self, command, options, child) ==
    execute(self, formatOf(options), fullCommand(self, command, options), child)

(* ------------------------------------------------------------------ *)
(* WPCLIExecutor: the methods built on runCommand                       *)
(* ------------------------------------------------------------------ *)

getCoreInfo(self, child) == runCommand(self, <<"core version">>, <<>>, child)

getPlugins(self, options, child) == runCommand(self, <<"plugin list">>, options, child)

getPluginDetails(self, plugin, child) ==
    runCommand(self, <<"plugin get ">> \o ToStr(plugin), <<>>, child)

activatePlugin(self, plugin, child) ==
    runCommand(self, <<"plugin activate ">> \o ToStr(plugin),
               << Entry("format", Str(<<>>)) >>, child)

deactivatePlugin(self, plugin, child) ==
    runCommand(self, <<"plugin deactivate ">> \o ToStr(plugin),
               << Entry("format", Str(<<>>)) >>, child)

getThemes(self, child) == runCommand(self, <<"theme list">>, <<>>, child)

getThemeDetails(self, theme, child) ==
    runCommand(self, <<"theme get ">> \o ToStr(theme), <<>>, child)

activateTheme(self, theme, child) ==
    runCommand(self, <<"theme activate ">> \o ToStr(theme),
               << Entry("format", Str(<<>>)) >>, child)

getUsers(self, options, child) == runCommand(self, <<"user list">>, options, child)

CreateUserRequiredMessage ==
    <<"Username, email, and password are required to create a user">>

createUser(self, userData, child) ==
    LET username  == Get(userData, "username")
        email     == Get(userData, "email")
        password  == Get(userData, "password")
        role      == OrDefault(Get(userData, "role"), Str(<<"subscriber">>))
        otherData == Rest(userData, {"username", "email", "password", "role"})
        command   == <<"user create ">> \o ToStr(username) \o <<" ">> \o ToStr(email)
        options   == Spread(<< Entry("format", Str(<<>>)), Entry("role", role),
                               Entry("password", password) >>, otherData)
    IN  IF ~Truthy(username) \/ ~Truthy(email) \/ ~Truthy(password)
        THEN Threw(self, CreateUserRequiredMessage, <<>>)
        ELSE runCommand(self, command, options, child)

UpdateUserRequiredMessage == <<"User ID is required to update a user">>

updateUser(self, userId, userData, child) ==
    IF ~Truthy(userId)
    THEN Threw(self, UpdateUserRequiredMessage, <<>>)
    ELSE runCommand(self, <<"user update ">> \o ToStr(userId),
                    Spread(<< Entry("format", Str(<<>>)) >>, userData), child)

getOption(self, option, child) ==
    runCommand(self, <<"option get ">> \o ToStr(option),
               << Entry("format", Str(<<>>)) >>, child)

updateOption(self, option, value, child) ==
    runCommand(self, <<"option update ">> \o ToStr(option) \o <<" \"">> \o ToStr(value)
                     \o <<"\"">>,
               << Entry("format", Str(<<>>)) >>, child)

\* String.prototype.toLowerCase, on the letters the queries are written with
lowerChar(c) ==
    CASE c = "S" -> "s" [] c = "E" -> "e" [] c = "L" -> "l" [] c = "C" -> "c"
      [] c = "T" -> "t" [] c = "U" -> "u" [] c = "P" -> "p" [] c = "D" -> "d"
      [] c = "A" -> "a" [] c = "R" -> "r" [] c = "O" -> "o" [] c = "X" -> "x"
      [] OTHER -> c

toLowerCase(s) == [ i \in 1..Len(s) |-> lowerChar(s[i]) ]

OnlySelectMessage == <<"Only SELECT queries are allowed for security reasons">>

\* the test the three query-forwarding tools make on a statement
startsWithSelect(sql) ==
    startsWith(toLowerCase(trim(sql)), <<"s", "e", "l", "e", "c", "t">>)

\* dbQuery(sql), sql a string
dbQuery(self, sql, child) ==
    IF ~startsWithSelect(sql)
    THEN Threw(self, OnlySelectMessage, <<>>)
    ELSE runCommand(self, <<"db query">>,
                    << Entry("format", Str(<<>>)), Entry("query", Str(sql)) >>, child)

\* the reads so far with one more: its error when it threw, else its trimmed
\* output added to the result
siteField(before, read) ==
    IF read.threw THEN Threw(read.self, read.error, before.ran \o read.ran)
    ELSE Returned(read.self, "siteinfo", before.text \o <<"|">> \o trim(read.text), <<>>,
                  before.ran \o read.ran)

\* `const x = await this.runCommand(...)` after the reads before it: nothing
\* more runs once one has thrown; the trimmed outputs are collected
thenRead(before, self, option, child) ==
    IF before.threw THEN before
    ELSE siteField(before, runCommand(before.self, <<"option get ">> \o option,
                                      << Entry("format", Str(<<>>)) >>, child))

\* the four option reads getSiteInfo makes, each started when the one before
\* has returned; children[i] answers the i-th
getSiteInfo(self, children) ==
    thenRead(thenRead(thenRead(thenRead(Returned(self, "siteinfo", <<>>, <<>>, <<>>),
                                        self, <<"siteurl">>, children[1]),
                               self, <<"blogname">>, children[2]),
                      self, <<"blogdescription">>, children[3]),
             self, <<"admin_email">>, children[4])

\* the options getSiteInfo reads, in the order it reads them
siteInfoReads == << "siteurl", "blogname", "blogdescription", "admin_email" >>

\* the invocations of get_site_info followed step by step at the same time
MaxInvocations == 2

\* an invocation not under way: no read started, no child process running
Idle == [ reads |-> 0, running |-> 0 ]

\* a getSiteInfo that starts its four reads together (Promise.all) instead of
\* awaiting each
beginAllReads(slot) ==
    [ reads |-> Len(siteInfoReads), running |-> Len(siteInfoReads) ]

\* getSiteInfo() up to its first await: runCommand('option get siteurl') has
\* started one child process
beginSiteInfo(slot) == [ reads |-> 1, running |-> 1 ]

\* the child process of the read under way has exited and the await resumes:
\* after a failure the invocation throws; after a success the next read starts
\* its child process, or the invocation returns when all reads are made
childExited(slot, ok) ==
    IF ok /\ slot.reads < Len(siteInfoReads)
    THEN [ reads |-> slot.reads + 1, running |-> slot.running - 1 + 1 ]
    ELSE Idle

(* ------------------------------------------------------------------ *)
(* WordPressAdminServer: the tool registry and its handlers             *)
(* ------------------------------------------------------------------ *)

\* the keys of the tools object registerTools assigns, in definition order
adminTools ==
    << "get_wp_version", "get_site_info", "get_plugins", "get_plugin_details",
       "activate_plugin", "deactivate_plugin", "get_themes", "get_theme_details",
       "activate_theme", "get_users", "create_user", "update_user", "get_option",
       "update_option" >>

Range(seq) == { seq[i] : i \in 1..Len(seq) }

\* parameters.properties of each tool: the arguments its schema declares
adminProperties(name) ==
    CASE name \in {"get_plugins", "get_themes"} -> {"status"}
      [] name \in {"get_plugin_details", "activate_plugin", "deactivate_plugin"} -> {"plugin"}
      [] name \in {"get_theme_details", "activate_theme"} -> {"theme"}
      [] name = "get_users" -> {"role", "limit"}
      [] name = "create_user" ->
           {"username", "email", "password", "role", "first_name", "last_name"}
      [] name = "update_user" ->
           {"user_id", "role", "password", "user_url", "first_name", "last_name",
            "description"}
      [] name = "get_option" -> {"option"}
      [] name = "update_option" -> {"option", "value"}
      [] OTHER -> {}

\* parameters.required of each tool
adminRequired(name) ==
    CASE name \in {"get_plugin_details", "activate_plugin", "deactivate_plugin"} -> {"plugin"}
      [] name \in {"get_theme_details", "activate_theme"} -> {"theme"}
      [] name = "create_user" -> {"username", "email", "password"}
      [] name = "update_user" -> {"user_id"}
      [] name = "get_option" -> {"option"}
      [] name = "update_option" -> {"option", "value"}
      [] OTHER -> {}

\* `if (v) obj.k = v`
WithIfTruthy(obj, k, v) == IF Truthy(v) THEN Spread(obj, << Entry(k, v) >>) ELSE obj

\* the body of each handler's try block: the executor method it calls
adminTry(self, name, params, children) ==
    CASE name = "get_wp_version" -> getCoreInfo(self, children[1])
      [] name = "get_site_info" -> getSiteInfo(self, children)
      [] name = "get_plugins" ->
           getPlugins(self, << Entry("status", Get(params, "status")) >>, children[1])
      [] name = "get_plugin_details" ->
           getPluginDetails(self, Get(params, "plugin"), children[1])
      [] name = "activate_plugin" ->
           activatePlugin(self, Get(params, "plugin"), children[1])
      [] name = "deactivate_plugin" ->
           deactivatePlugin(self, Get(params, "plugin"), children[1])
      [] name = "get_themes" -> getThemes(self, children[1])
      [] name = "get_theme_details" ->
           getThemeDetails(self, Get(params, "theme"), children[1])
      [] name = "activate_theme" ->
           activateTheme(self, Get(params, "theme"), children[1])
      [] name = "get_users" ->
           getUsers(self,
                    WithIfTruthy(WithIfTruthy(<<>>, "role", Get(params, "role")),
                                 "limit", Get(params, "limit")),
                    children[1])
      [] name = "create_user" ->
           createUser(self,
                      WithIfTruthy(WithIfTruthy(WithIfTruthy(
                          << Entry("username", Get(params, "username")),
                             Entry("email", Get(params, "email")),
                             Entry("password", Get(params, "password")) >>,
                          "role", Get(params, "role")),
                          "first_name", Get(params, "first_name")),
                          "last_name", Get(params, "last_name")),
                      children[1])
      [] name = "update_user" ->
           updateUser(self, Get(params, "user_id"), Rest(params, {"user_id"}),
                      children[1])
      [] name = "get_option" -> getOption(self, Get(params, "option"), children[1])
      [] name = "update_option" ->
           updateOption(self, Get(params, "option"), Get(params, "value"), children[1])

\* catch (error) { return { error: error.message } }
catchError(r) ==
    IF r.threw THEN Returned(r.self, "error", <<>>, r.error, r.ran) ELSE r

\* a handler: try { return await this.wpCli.<method>(...) } catch ...
adminHandler(self, name, params, children) ==
    catchError(adminTry(self, name, params, children))

\* the names every object inherits from Object.prototype
ObjectPrototypeKeys ==
    { "constructor", "toString", "valueOf", "hasOwnProperty", "isPrototypeOf",
      "propertyIsEnumerable", "toLocaleString", "__proto__" }

\* tools[name] on the object literal of registerTools
adminLookup(name) ==
    IF name \in Range(adminTools) THEN "tool"
    ELSE IF name \in ObjectPrototypeKeys THEN "inherited"
    ELSE "undefined"

\* what a request handler hands to the transport (top: the response's top-level
\* field; kind, text, error: the payload), with what the call did: whether a
\* handler of the registry was called, the child processes started, the database
\* connections opened and closed, the statements sent, and whether a fault left
\* the request handler
Answer(top, kind, text, error, handler, ran) ==
    [ top |-> top, kind |-> kind, text |-> text, error |-> error,
      handler |-> handler, ran |-> ran, opened |-> 0, closed |-> 0, executed |-> 0,
      fault |-> FALSE ]

ToolNotFoundMessage(name) == <<"Tool '", name, "' not found">>

NotAFunctionMessage == <<"tool.handler is not a function">>

\* try { const result = await tool.handler(...); return { result } }
\* catch (error) { return { error: error.message } }
adminRespond(r) ==
    IF r.threw
    THEN [ self   |-> r.self,
           answer |-> Answer("error", "none", <<>>, r.error, TRUE, r.ran) ]
    ELSE [ self   |-> r.self,
           answer |-> Answer("result", r.kind, r.text, r.error, TRUE, r.ran) ]

\* the CallToolRequestSchema handler of wp-admin-mcp.js: the executor after the
\* call and the answer
adminCallTool(self, name, params, children) ==
    IF adminLookup(name) = "undefined"
    THEN [ self   |-> self,
           answer |-> Answer("error", "none", <<>>, ToolNotFoundMessage(name),
                             FALSE, <<>>) ]
    ELSE IF adminLookup(name) = "inherited"
    THEN [ self   |-> self,
           answer |-> Answer("error", "none", <<>>, NotAFunctionMessage, FALSE, <<>>) ]
    ELSE adminRespond(adminHandler(self, name, params, children))

\* a parseWPConfig() that lets the failure of fs.readFile leave it
parseWPConfigThrowing(readable) ==
    [ threw |-> ~readable, settings |-> "parsed" ]

\* parseWPConfig(): the settings read from wp-config.php, or the default
\* settings its catch returns when the file cannot be read
parseWPConfig(readable) ==
    [ threw |-> FALSE, settings |-> IF readable THEN "parsed" ELSE "defaults" ]

\* WordPressAdminServer.initialize() without its try/catch: what
\* wpCli.initialize() throws leaves it
adminInitializeUncaught(self, env, readable) ==
    LET config == parseWPConfig(readable)
        r      == initialize(self, env)
    IN  IF config.threw
        THEN [ self |-> self, ok |-> FALSE, threw |-> TRUE, dbSettings |-> "null",
               probes |-> <<>>, ran |-> <<>> ]
        ELSE [ self |-> r.self, ok |-> ~r.threw, threw |-> r.threw,
               dbSettings |-> config.settings, probes |-> r.probes, ran |-> r.ran ]

\* WordPressAdminServer.initialize(): dbSettings = await parseWPConfig(), then
\* await wpCli.initialize(); true when both returned, false from the catch
adminInitialize(self, env, readable) ==
    LET config == parseWPConfig(readable)
        r      == initialize(self, env)
    IN  IF config.threw
        THEN [ self |-> self, ok |-> FALSE, threw |-> FALSE, dbSettings |-> "null",
               probes |-> <<>>, ran |-> <<>> ]
        ELSE [ self |-> r.self, ok |-> ~r.threw, threw |-> FALSE,
               dbSettings |-> config.settings, probes |-> r.probes, ran |-> r.ran ]

(* ------------------------------------------------------------------ *)
(* The database servers: enhanced-wp-mcp.js and unnamed/part_000        *)
(* ------------------------------------------------------------------ *)

\* the most statements of one call after which the database may fail
MaxFailAt == 2

\* what the database does during one call: whether mysql.createConnection
\* succeeds, which execute() fails (0: none), how many rows a query finds
DbOutcomes == [ connect : BOOLEAN, failAt : 0..MaxFailAt, rows : 0..1 ]

ConnectErrorMessage == <<"connect ECONNREFUSED">>

ExecuteErrorMessage == <<"You have an error in your SQL syntax">>

TypeErrorMessage == <<"Cannot read properties of undefined (reading 'trim')">>

DbAnswer(top, kind, text, error, handler, opened, closed, executed, fault) ==
    [ top |-> top, kind |-> kind, text |-> text, error |-> error,
      handler |-> handler, ran |-> <<>>, opened |-> opened, closed |-> closed,
      executed |-> executed, fault |-> fault ]

\* the keys of the tools object of enhanced-wp-mcp.js, in definition order
enhancedTools ==
    << "get_posts", "get_post_by_id", "get_posts_count", "get_users", "get_tables",
       "get_table_structure", "execute_query", "get_options", "get_wp_info",
       "server_status" >>

\* the connection.execute() calls of each handler of enhanced-wp-mcp.js
enhancedStatements(name) ==
    CASE name \in {"get_post_by_id", "get_table_structure"} -> 2
      [] name = "get_wp_info" -> 5
      [] OTHER -> 1

\* a handler of enhanced-wp-mcp.js: the payload it returns and what it did.
\* Each is try { connect; execute...; end; return {...} } catch { return {error} }
enhancedHandler(name, params, db) ==
    LET n      == enhancedStatements(name)
        query  == Get(params, "query")
        fails  == db.failAt \in 1..n
        sent   == IF fails THEN db.failAt ELSE n
    IN  IF name = "server_status"
        THEN \* testConnection() catches its own faults and answers a status
             DbAnswer("result", "status", <<>>, <<>>, TRUE,
                      IF db.connect THEN 1 ELSE 0,
                      IF db.connect /\ ~fails THEN 1 ELSE 0,
                      IF db.connect THEN 1 ELSE 0, FALSE)
        ELSE IF name = "execute_query" /\ query.t # "string"
        THEN DbAnswer("result", "error", <<>>, TypeErrorMessage, TRUE, 0, 0, 0, FALSE)
        ELSE IF name = "execute_query" /\ ~startsWithSelect(query.v)
        THEN DbAnswer("result", "error", <<>>, OnlySelectMessage, TRUE, 0, 0, 0, FALSE)
        ELSE IF ~db.connect
        THEN DbAnswer("result", "error", <<>>, ConnectErrorMessage, TRUE, 0, 0, 0, FALSE)
        ELSE IF fails
        THEN DbAnswer("result", "error", <<>>, ExecuteErrorMessage, TRUE, 1, 0, sent, FALSE)
        ELSE IF name = "get_post_by_id" /\ db.rows = 0
        THEN DbAnswer("result", "error", <<>>, <<"Post not found">>, TRUE, 1, 1, sent, FALSE)
        ELSE DbAnswer("result", "rows", <<>>, <<>>, TRUE, 1, 1, sent, FALSE)

\* testConnection(): createConnection, execute('SELECT 1'), end; any failure is
\* caught and answered with false
testConnection(db) == db.connect /\ db.failAt # 1

\* WordPressDatabaseServer.initialize(): the configuration of the environment
\* when host, user and database are all set, else parseWPConfig(); then the
\* connection test and registerTools(); the catch calls registerTools() too
enhancedInitialize(envConfig, readable, db) ==
    LET config == IF envConfig THEN [ threw |-> FALSE, settings |-> "env" ]
                  ELSE parseWPConfig(readable)
    IN  IF config.threw
        THEN [ dbConfig |-> "null", connected |-> FALSE, tools |-> TRUE,
               threw |-> FALSE ]
        ELSE [ dbConfig |-> config.settings, connected |-> testConnection(db),
               tools |-> TRUE, threw |-> FALSE ]

\* the CallToolRequestSchema handler of enhanced-wp-mcp.js:
\* tools[tool]?.handler is undefined for every name that is no tool
enhancedCallTool(name, params, db) ==
    IF name \notin Range(enhancedTools)
    THEN DbAnswer("result", "error", <<>>, ToolNotFoundMessage(name), FALSE, 0, 0, 0, FALSE)
    ELSE enhancedHandler(name, params, db)

\* the names the switch of unnamed/part_000 knows
indexTools ==
    << "get_posts_count", "get_posts_list", "execute_custom_query", "get_database_info",
       "check_database_performance", "get_table_info" >>

\* the connection.execute() calls of each method of unnamed/part_000
indexStatements(name) ==
    CASE name \in {"get_database_info", "check_database_performance", "get_table_info"} -> 2
      [] OTHER -> 1

\* a method of unnamed/part_000: createConnection(), then
\* try { ...; return {content} } finally { await connection.end() }
\* It returns a text or throws (threw, with the message in error).
indexMethod(name, args, db) ==
    LET n      == indexStatements(name)
        query  == Get(args, "query")
        fails  == db.failAt \in 1..n
        sent   == IF fails THEN db.failAt ELSE n
    IN  IF ~db.connect
        THEN [ threw |-> TRUE, opened |-> 0, closed |-> 0, executed |-> 0,
               error |-> <<"Database connection failed: ">> \o ConnectErrorMessage ]
        ELSE IF name = "execute_custom_query" /\ query.t # "string"
        THEN [ threw |-> TRUE, opened |-> 1, closed |-> 1, executed |-> 0,
               error |-> TypeErrorMessage ]
        ELSE IF name = "execute_custom_query" /\ ~startsWithSelect(query.v)
        THEN [ threw |-> TRUE, opened |-> 1, closed |-> 1, executed |-> 0,
               error |-> OnlySelectMessage ]
        ELSE IF fails
        THEN [ threw |-> TRUE, opened |-> 1, closed |-> 1, executed |-> sent,
               error |-> ExecuteErrorMessage ]
        ELSE [ threw |-> FALSE, opened |-> 1, closed |-> 1, executed |-> sent,
               error |-> <<>> ]

\* the names of the tools array the ListToolsRequestSchema handler of
\* unnamed/part_000 returns, in the order written
indexListed ==
    << "get_posts_count", "get_posts_list", "execute_custom_query", "get_database_info",
       "check_database_performance", "get_table_info" >>

UnknownToolMessage(name) == <<"Unknown tool: ", name>>

\* the request handler without its try/catch: what a method throws leaves it
indexCallToolUncaught(name, args, db) ==
    LET r == indexMethod(name, args, db)
    IN  IF name \notin Range(indexTools)
        THEN DbAnswer("fault", "none", <<>>, UnknownToolMessage(name),
                      FALSE, 0, 0, 0, TRUE)
        ELSE IF r.threw
        THEN DbAnswer("fault", "none", <<>>, r.error, TRUE,
                      r.opened, r.closed, r.executed, TRUE)
        ELSE DbAnswer("content", "text", <<"ok">>, <<>>, TRUE,
                      r.opened, r.closed, r.executed, FALSE)

\* the CallToolRequestSchema handler of unnamed/part_000: a switch inside
\* try { ... } catch (error) { return { content: [{ text: `Error: ...` }] } }
indexCallTool(name, args, db) ==
    LET r == indexMethod(name, args, db)
    IN  IF name \notin Range(indexTools)
        THEN DbAnswer("content", "text", <<>>, <<"Error: ">> \o UnknownToolMessage(name),
                      FALSE, 0, 0, 0, FALSE)
        ELSE IF r.threw
        THEN DbAnswer("content", "text", <<>>, <<"Error: ">> \o r.error, TRUE,
                      r.opened, r.closed, r.executed, FALSE)
        ELSE DbAnswer("content", "text", <<"ok">>, <<>>, TRUE,
                      r.opened, r.closed, r.executed, FALSE)

(* ------------------------------------------------------------------ *)
(* The requests and direct calls the model makes                        *)
(* ------------------------------------------------------------------ *)

Request(name, params) == [ name |-> name, params |-> params ]

akismet == Entry("plugin", Str(<<"akismet">>))
astra   == Entry("theme", Str(<<"astra">>))

\* invoke requests sent to wp-admin-mcp.js: every tool, with its declared
\* arguments, without a required one, with an undeclared one; unknown names
AdminRequests ==
    { Request("get_wp_version", <<>>),
      Request("get_site_info", <<>>),
      Request("get_plugins", <<>>),
      Request("get_plugins", << Entry("status", Str(<<"active">>)) >>),
      Request("get_plugin_details", << akismet >>),
      Request("get_plugin_details", <<>>),
      Request("get_plugin_details",
              << Entry("plugin", Str(<<"akismet", " ", "--allow-root">>)) >>),
      Request("activate_plugin", << akismet >>),
      Request("activate_plugin", <<>>),
      Request("deactivate_plugin", << akismet >>),
      Request("get_themes", <<>>),
      Request("get_theme_details", << astra >>),
      Request("activate_theme", << astra >>),
      Request("activate_theme", <<>>),
      Request("get_users", <<>>),
      Request("get_users", << Entry("role", Str(<<"editor">>)), Entry("limit", Num(<<"5">>)) >>),
      Request("create_user", << Entry("username", Str(<<"ann">>)),
                                Entry("email", Str(<<"ann@example.org">>)),
                                Entry("password", Str(<<"secret">>)) >>),
      Request("create_user", << Entry("email", Str(<<"ann@example.org">>)),
                                Entry("password", Str(<<"secret">>)) >>),
      Request("update_user", << Entry("user_id", Num(<<"1">>)),
                                Entry("role", Str(<<"editor">>)) >>),
      Request("update_user", << Entry("user_id", Num(<<"1">>)),
                                Entry("role", Str(<<"editor">>)),
                                Entry("user_pass", Str(<<"hacked">>)) >>),
      Request("update_user", << Entry("role", Str(<<"editor">>)) >>),
      Request("get_option", << Entry("option", Str(<<"blogname">>)) >>),
      Request("update_option", << Entry("option", Str(<<"blogname">>)),
                                  Entry("value", Str(<<"My", " ", "Store">>)) >>),
      Request("update_option", << Entry("option", Str(<<"blogname">>)),
                                  Entry("value", Str(<<"My", " ", "\"", "Store", "\"">>)) >>),
      Request("update_option", << Entry("option", Str(<<"blogname">>)) >>),
      Request("nonexistent_tool", <<>>),
      Request("constructor", <<>>) }

\* the child results tried for the four commands of get_site_info
SiteChildResults ==
    { ChildResult(0, <<"Success", "\n">>, <<>>),
      ChildResult(1, <<>>, <<"Error:", " fatal">>) }

\* the child results answering the commands of one request, in order
ChildSeqs(name) ==
    IF name = "get_site_info"
    THEN [ 1..4 -> SiteChildResults ]
    ELSE { << c >> : c \in ChildResults }

\* statements, one character per chunk
Queries ==
    { <<"S", "E", "L", "E", "C", "T", " ", "1">>,
      <<" ", " ", "s", "e", "l", "e", "c", "t", " ", "1">>,
      <<"\n", "S", "e", "L", "e", "C", "t", "\t", "1", "\n">>,
      <<"s", "e", "l", "e", "c", "t">>,
      <<"U", "P", "D", "A", "T", "E", " ", "x">>,
      <<" ", "d", "r", "o", "p", " ", "x">>,
      <<"s", "e", "l", "e", "c", "t", "x", " ", "1">>,
      <<"S", "E", "L", "E", "C", "T", "_", "1">>,
      <<"s", "e", "l", "e">>,
      <<" ">>,
      <<>> }

\* commands given to runCommand directly
RunCommands == { <<"plugin", " ", "list">>, <<"cache", " ", "flush">> }

\* option objects given to runCommand directly: strings, numbers, booleans,
\* format hints, undefined, values with spaces and with double quotes
RunOptions ==
    { <<>>,
      << Entry("status", Str(<<"active">>)) >>,
      << Entry("limit", Num(<<"5">>)) >>,
      << Entry("network", Bool(TRUE)) >>,
      << Entry("quiet", Bool(FALSE)) >>,
      << Entry("network", Bool(TRUE)), Entry("status", Str(<<"active">>)),
         Entry("quiet", Bool(FALSE)) >>,
      << Entry("format", Str(<<"table">>)) >>,
      << Entry("format", Str(<<"csv">>)), Entry("status", Str(<<"active">>)) >>,
      << Entry("format", Str(<<>>)) >>,
      << Entry("format", Undefined) >>,
      << Entry("format", Null) >>,
      << Entry("status", Undefined) >>,
      << Entry("title", Str(<<"My", " ", "Store">>)) >>,
      << Entry("title", Str(<<"a", "\"", " ", "--allow-root", " ", "\"">>)) >>,
      << Entry("title", Str(<<"x", "\"", ";", " ", "reboot", ";", " ", "\"">>)) >> }

EnhancedRequests ==
    { Request(enhancedTools[i], <<>>) : i \in 1..Len(enhancedTools) }
    \cup { Request("execute_query", << Entry("query", Str(q)) >>) : q \in Queries }
    \cup { Request("nonexistent_tool", <<>>), Request("constructor", <<>>) }

IndexRequests ==
    { Request(indexTools[i], <<>>) : i \in 1..Len(indexTools) }
    \cup { Request("execute_custom_query", << Entry("query", Str(q)) >>) : q \in Queries }
    \cup { Request("nonexistent_tool", <<>>), Request("constructor", <<>>) }

(* ------------------------------------------------------------------ *)
(* The state machine: one process running one of the programs           *)
(* ------------------------------------------------------------------ *)

VARIABLES
    program,    \* the file the process runs: "wp-admin-mcp", "wp-cli-tools",
                \* "enhanced-wp-mcp" or "index" (unnamed/part_000)
    entry,      \* "script": run as the main module; "module": imported and driven
    wpCli,      \* the WPCLIExecutor (of the admin server, or used on its own)
    detection,  \* the detection: state of the bridge, whether initialize() threw,
                \* the probes made, the commands run
    server,     \* the server object: initialize() result, registry, listening, exited
    last,       \* the last request or direct call, and its answer
    inflight    \* the get_site_info invocations under way: the option reads each
                \* has started and its child processes running

vars == << program, entry, wpCli, detection, server, last, inflight >>

Programs == { "wp-admin-mcp", "wp-cli-tools", "enhanced-wp-mcp", "index" }

NoCall ==
    [ op |-> "none", name |-> "", params |-> <<>>, given |-> <<>>,
      answer |-> Answer("none", "none", <<>>, <<>>, FALSE, <<>>) ]

Call(op, name, params, given, answer) ==
    [ op |-> op, name |-> name, params |-> params, given |-> given, answer |-> answer ]

\* what a detection read from `docker ps`: the names listed, when it ran the
\* command and the command succeeded
Listed(env, ran) ==
    IF "docker ps" \in Range(ran) /\ env.docker THEN << env.listing >> ELSE <<>>

\* the bridge after a detection: Ready with a strategy or Unavailable, whether
\* initialize() threw, the probes it made, the commands it ran, the container
\* listing it read, and whether initialize() had run on this executor before
Detected(self, threw, probes, ran, listed, again) ==
    [ state  |-> IF self.wpCliMethod = Undefined THEN "unavailable" ELSE "ready",
      threw  |-> threw,
      probes |-> probes,
      ran    |-> ran,
      listed |-> listed,
      again  |-> again ]

\* the programs that hold a WPCLIExecutor, and those with two ways to start
CliPrograms == { "wp-admin-mcp", "wp-cli-tools" }

TwoEntryPrograms == { "wp-admin-mcp", "enhanced-wp-mcp" }

Init ==
    /\ program \in Programs
    /\ entry \in (IF program \in TwoEntryPrograms THEN { "script", "module" }
                  ELSE { "script" })
    /\ wpCli \in { WPCLIExecutor(p) :
                     p \in (IF program \in CliPrograms THEN WpPaths
                            ELSE { <<"/", "var", "/", "www">> }) }
    /\ detection = [ state |-> "uninitialized", threw |-> FALSE, probes |-> <<>>,
                     ran |-> <<>>, listed |-> <<>>, again |-> FALSE ]
    /\ server = [ initialized |-> "no", tools |-> FALSE, listening |-> FALSE,
                  exited |-> FALSE, raised |-> FALSE, dbSettings |-> "null",
                  dbConfig |-> "null", connected |-> FALSE ]
    /\ last = NoCall
    /\ inflight = [ i \in 1..MaxInvocations |-> Idle ]

\* server.initialize() of wp-admin-mcp.js (the main script's first step)
AdminInitialize ==
    /\ program = "wp-admin-mcp"
    /\ last = NoCall
    /\ server.initialized = "no"
    /\ ~server.exited
    /\ \E env \in Environments, readable \in BOOLEAN :
         LET r == adminInitialize(wpCli, env, readable)
         IN  /\ wpCli' = r.self
             /\ detection' = Detected(r.self, ~r.ok, r.probes, r.ran,
                                      Listed(env, r.ran), FALSE)
             /\ server' = [ server EXCEPT
                              !.initialized = IF r.ok THEN "true" ELSE "false",
                              !.raised = r.threw,
                              !.dbSettings = r.dbSettings ]
    /\ UNCHANGED << inflight, program, entry, last >>

\* the main script's else branch: process.exit(1) when initialize() gave false
AdminExit ==
    /\ program = "wp-admin-mcp"
    /\ last = NoCall
    /\ entry = "script"
    /\ server.initialized = "false"
    /\ ~server.exited
    /\ server' = [ server EXCEPT !.exited = TRUE ]
    /\ UNCHANGED << inflight, program, entry, wpCli, detection, last >>

\* registerTools(), called by an importing script
AdminRegisterTools ==
    /\ program = "wp-admin-mcp"
    /\ last = NoCall
    /\ entry = "module"
    /\ ~server.tools
    /\ server' = [ server EXCEPT !.tools = TRUE ]
    /\ UNCHANGED << inflight, program, entry, wpCli, detection, last >>

\* run(): the main script calls it once initialize() gave true
AdminRun ==
    /\ program = "wp-admin-mcp"
    /\ last = NoCall
    /\ ~server.listening
    /\ ~server.exited
    /\ entry = "script" => server.initialized = "true"
    /\ server' = [ server EXCEPT !.tools = TRUE, !.listening = TRUE ]
    /\ UNCHANGED << inflight, program, entry, wpCli, detection, last >>

\* one invoke request handled by wp-admin-mcp.js
AdminCallTool ==
    /\ program = "wp-admin-mcp"
    /\ last = NoCall
    /\ server.listening
    /\ \A i \in 1..MaxInvocations : inflight[i] = Idle
    /\ \E req \in AdminRequests :
         \E children \in ChildSeqs(req.name) :
           LET r == adminCallTool(wpCli, req.name, req.params, children)
           IN  /\ wpCli' = r.self
               /\ last' = Call("invoke", req.name, req.params, children, r.answer)
    /\ UNCHANGED << inflight, program, entry, detection, server >>

\* wpCli.initialize() on an executor used on its own (the tester of
\* wp-cli-tools.js, demo-wp-admin.js): the caller catches what it throws.
\* It is a public method and nothing keeps a caller from running it again.
ExecutorInitialize ==
    /\ program = "wp-cli-tools"
    /\ last = NoCall
    /\ \E env \in Environments :
         LET r == initialize(wpCli, env)
         IN  /\ wpCli' = r.self
             /\ detection' = Detected(r.self, r.threw, r.probes, r.ran,
                                      Listed(env, r.ran),
                                      detection.state # "uninitialized")
    /\ UNCHANGED << inflight, program, entry, server, last >>

\* wpCli.dbQuery(sql) on an executor used on its own
ExecutorDbQuery ==
    /\ program = "wp-cli-tools"
    /\ last = NoCall
    /\ \E sql \in Queries :
         \E child \in ChildResults :
           LET r == dbQuery(wpCli, sql, child)
           IN  /\ wpCli' = r.self
               /\ last' = Call("dbQuery", "dbQuery", << Entry("query", Str(sql)) >>,
                               << child >>,
                               Answer(IF r.threw THEN "threw" ELSE "returned",
                                      r.kind, r.text, r.error, FALSE, r.ran))
    /\ UNCHANGED << inflight, program, entry, detection, server >>

\* what a direct call of an executor method gives its caller
executorAnswer(r) ==
    Answer(IF r.kind = "pending" THEN "pending"
           ELSE IF r.threw THEN "threw" ELSE "returned",
           r.kind, r.text, r.error, FALSE, r.ran)

\* wpCli.runCommand(command, options) on an executor used on its own; the child
\* process exits with some result or never exits
ExecutorRunCommand ==
    /\ program = "wp-cli-tools"
    /\ last = NoCall
    /\ \E command \in RunCommands :
         \E options \in RunOptions :
           \E child \in ChildResults \cup { NeverExits } :
             LET r == runCommand(wpCli, command, options, child)
             IN  /\ wpCli' = r.self
                 /\ last' = Call("runCommand", "runCommand",
                                 << Entry("command", Str(command)),
                                    Entry("options", [t |-> "object", v |-> options]) >>,
                                 << child >>, executorAnswer(r))
    /\ UNCHANGED << inflight, program, entry, detection, server >>

\* the answer to an enumerate request: the names in the order listed
Listing(names) == Answer("tools", "list", names, <<>>, FALSE, <<>>)

\* one enumerate request handled by wp-admin-mcp.js:
\* Object.entries(tools).map(([name, tool]) => ...)
AdminListTools ==
    /\ program = "wp-admin-mcp"
    /\ last = NoCall
    /\ server.listening
    /\ \A i \in 1..MaxInvocations : inflight[i] = Idle
    /\ last' = Call("enumerate", "", <<>>, <<>>, Listing(adminTools))
    /\ UNCHANGED << inflight, program, entry, wpCli, detection, server >>

\* initialize() of enhanced-wp-mcp.js, called by an importing script (the main
\* module calls run() only)
EnhancedInitialize ==
    /\ program = "enhanced-wp-mcp"
    /\ last = NoCall
    /\ entry = "module"
    /\ server.initialized = "no"
    /\ \E envConfig \in BOOLEAN, readable \in BOOLEAN, db \in DbOutcomes :
         LET r == enhancedInitialize(envConfig, readable, db)
         IN  server' = [ server EXCEPT !.initialized = "true",
                                       !.tools = r.tools,
                                       !.raised = r.threw,
                                       !.dbConfig = r.dbConfig,
                                       !.connected = r.connected ]
    /\ UNCHANGED << inflight, program, entry, wpCli, detection, last >>

\* run() of enhanced-wp-mcp.js installs the two request handlers and starts the
\* server; it does not call registerTools(). The main module calls it on a new
\* server.
EnhancedRun ==
    /\ program = "enhanced-wp-mcp"
    /\ last = NoCall
    /\ ~server.listening
    /\ server' = [ server EXCEPT !.listening = TRUE ]
    /\ UNCHANGED << inflight, program, entry, wpCli, detection, last >>

\* server.implementation.capabilities.tools before registerTools() has run:
\* registerTools() itself allows for each level to be missing
SdkRegistries == { "absent", "empty" }

RegistryMissingMessage ==
    <<"Cannot read properties of undefined (reading 'capabilities')">>

\* a request handled by enhanced-wp-mcp.js before registerTools() has run: the
\* read of the registry throws outside any try, or finds an object with no tool
enhancedUnregistered(op, name, sdk) ==
    IF sdk = "absent"
    THEN DbAnswer("fault", "none", <<>>, RegistryMissingMessage, FALSE, 0, 0, 0, TRUE)
    ELSE IF op = "enumerate"
    THEN Listing(<<>>)
    ELSE DbAnswer("result", "error", <<>>, ToolNotFoundMessage(name), FALSE, 0, 0, 0, FALSE)

\* one invoke request handled by enhanced-wp-mcp.js
EnhancedCallTool ==
    /\ program = "enhanced-wp-mcp"
    /\ last = NoCall
    /\ server.listening
    /\ \E req \in EnhancedRequests :
         \E db \in DbOutcomes, sdk \in SdkRegistries :
           last' = Call("invoke", req.name, req.params, db,
                        IF server.tools
                        THEN enhancedCallTool(req.name, req.params, db)
                        ELSE enhancedUnregistered("invoke", req.name, sdk))
    /\ UNCHANGED << inflight, program, entry, wpCli, detection, server >>

\* one enumerate request handled by enhanced-wp-mcp.js: the tools object
\* itself is the answer
EnhancedListTools ==
    /\ program = "enhanced-wp-mcp"
    /\ last = NoCall
    /\ server.listening
    /\ \E sdk \in SdkRegistries :
         last' = Call("enumerate", "", <<>>, <<>>,
                      IF server.tools THEN Listing(enhancedTools)
                      ELSE enhancedUnregistered("enumerate", "", sdk))
    /\ UNCHANGED << inflight, program, entry, wpCli, detection, server >>

\* run() of unnamed/part_000; the constructor has installed the handlers
IndexRun ==
    /\ program = "index"
    /\ last = NoCall
    /\ ~server.listening
    /\ server' = [ server EXCEPT !.tools = TRUE, !.listening = TRUE ]
    /\ UNCHANGED << inflight, program, entry, wpCli, detection, last >>

\* one invoke request handled by unnamed/part_000
IndexCallTool ==
    /\ program = "index"
    /\ last = NoCall
    /\ server.listening
    /\ \E req \in IndexRequests :
         \E db \in DbOutcomes :
           last' = Call("invoke", req.name, req.params, db,
                        indexCallTool(req.name, req.params, db))
    /\ UNCHANGED << inflight, program, entry, wpCli, detection, server >>

\* one enumerate request handled by unnamed/part_000: the array literal of
\* setupToolHandlers
IndexListTools ==
    /\ program = "index"
    /\ last = NoCall
    /\ server.listening
    /\ last' = Call("enumerate", "", <<>>, <<>>, Listing(indexListed))
    /\ UNCHANGED << inflight, program, entry, wpCli, detection, server >>

\* a get_site_info request arrives at wp-admin-mcp.js while others may be under
\* way: its handler runs getSiteInfo() up to the first await. (With no strategy
\* selected runCommand throws before it starts any child process.)
SiteInfoBegin ==
    /\ program = "wp-admin-mcp"
    /\ last = NoCall
    /\ server.listening
    /\ wpCli.wpCliMethod # Undefined
    /\ \E i \in 1..MaxInvocations :
         /\ inflight[i] = Idle
         /\ inflight' = [ inflight EXCEPT ![i] = beginSiteInfo(@) ]
    /\ UNCHANGED << program, entry, wpCli, detection, server, last >>

\* the child process of one invocation exits, with success or not, and the
\* invocation goes on to its next await or ends
SiteInfoChildExits ==
    /\ program = "wp-admin-mcp"
    /\ last = NoCall
    /\ \E i \in 1..MaxInvocations :
         /\ inflight[i].running > 0
         /\ \E ok \in BOOLEAN :
              inflight' = [ inflight EXCEPT ![i] = childExited(@, ok) ]
    /\ UNCHANGED << program, entry, wpCli, detection, server, last >>

\* the answer is handed to the transport (or the caller); nothing of the call is
\* kept, and the single worker takes up the next step. A call whose child
\* process has not exited has no answer to hand over.
Deliver ==
    /\ last # NoCall
    /\ last.answer.top # "pending"
    /\ last' = NoCall
    /\ UNCHANGED << inflight, program, entry, wpCli, detection, server >>

Next ==
    \/ AdminInitialize
    \/ AdminExit
    \/ AdminRegisterTools
    \/ AdminRun
    \/ AdminCallTool
    \/ ExecutorInitialize
    \/ ExecutorDbQuery
    \/ EnhancedInitialize
    \/ EnhancedRun
    \/ EnhancedCallTool
    \/ IndexRun
    \/ IndexCallTool
    \/ ExecutorRunCommand
    \/ AdminListTools
    \/ EnhancedListTools
    \/ IndexListTools
    \/ SiteInfoBegin
    \/ SiteInfoChildExits
    \/ Deliver

Spec == Init /\ [][Next]_vars

\* the event loop runs whatever step is ready
FairSpec == Spec /\ WF_vars(Next)

(* ------------------------------------------------------------------ *)
(* Properties                                                          *)
(* ------------------------------------------------------------------ *)

ProbeOrder == << "direct", "docker", "phar" >>

Detecting == detection.state # "uninitialized"

AllProbesFailed ==
    /\ Detecting
    /\ \A i \in 1..Len(detection.probes) : ~detection.probes[i].ok

\* a request for a tool of the registry was handled by wp-admin-mcp.js
AdminToolCalled ==
    /\ program = "wp-admin-mcp"
    /\ last.op = "invoke"
    /\ last.name \in Range(adminTools)

\* C1: detection probes in the order Direct, ContainerExec, InterpreterScript and
\* stops at the first success: the probes made are a prefix of that order, only
\* the last of them can have succeeded, the strategy selected is the one of the
\* probe that succeeded, and nothing of a later probe was run (no container
\* listing after a direct success, no archive check after a container success).
\* When every probe of an executor's first detection failed, no strategy is
\* selected (a later detection that fails keeps what an earlier one selected).
C1_FirstSuccessSelected ==
    Detecting =>
      LET p == detection.probes
          n == Len(detection.probes)
      IN  /\ n \in 1..3
          /\ \A i \in 1..n : p[i].strategy = ProbeOrder[i]
          /\ \A i \in 1..(n - 1) : ~p[i].ok
          /\ p[n].ok => wpCli.wpCliMethod = Str(<< p[n].strategy >>)
          /\ ~p[n].ok => n = 3 /\ (~detection.again => wpCli.wpCliMethod = Undefined)
          /\ n = 1 => detection.ran = << "wp --info" >>
          /\ n = 2 => "fs.access" \notin Range(detection.ran)

\* Direct failed, ContainerExec succeeded and was selected, no archive check
C1_Witness ==
    /\ detection.probes = << Probe("direct", FALSE), Probe("docker", TRUE) >>
    /\ wpCli.wpCliMethod = Str(<<"docker">>)
    /\ detection.ran = << "wp --info", "docker ps" >>

\* C2: when all three probes fail, initialize() does not raise, the server's
\* initialize() does not report failure and the process does not exit.
C2_AllFailStillInitializes ==
    AllProbesFailed =>
      /\ ~detection.threw
      /\ server.initialized # "false"
      /\ ~server.exited

\* C3: once detection has finished (Ready or Unavailable), a tool invocation or
\* a direct call of an executor method changes nothing of the executor (strategy,
\* container, working directory) and nothing of the detection (it does not run
\* again).
C3_BridgeTerminal ==
    [][ (Detecting /\ last = NoCall /\ last' # NoCall)
          => (wpCli' = wpCli /\ detection' = detection) ]_vars

\* after a detection that selected a container, a request ran a command in it
C3_Witness ==
    /\ detection.state = "ready"
    /\ wpCli.wpCliMethod = Str(<<"docker">>)
    /\ last.op = "invoke"
    /\ last.answer.ran # <<>>

\* C4 as stated: with no strategy selected, every invocation of a CLI-backed
\* tool is answered with the 'No WP-CLI execution method configured' message
\* and starts no child process.
C4_AlwaysNoMethodMessage ==
    (AdminToolCalled /\ wpCli.wpCliMethod = Undefined)
      => (last.answer.error = NoMethodMessage /\ last.answer.ran = <<>>)

\* the argument checks createUser and updateUser make before runCommand
FailsOwnCheck(name, params) ==
    \/ /\ name = "create_user"
       /\ \E k \in {"username", "email", "password"} : ~Truthy(Get(params, k))
    \/ /\ name = "update_user"
       /\ ~Truthy(Get(params, "user_id"))

\* C4 amended: with no strategy selected, every invocation of a CLI-backed tool
\* is answered with an error payload and starts no child process; the payload
\* carries the 'No WP-CLI execution method configured' message, except that
\* create_user without username, email or password and update_user without
\* user_id carry the message of the tool's own argument check.
C4_NoMethodNoChild ==
    (AdminToolCalled /\ wpCli.wpCliMethod = Undefined)
      => /\ last.answer.ran = <<>>
         /\ last.answer.kind = "error"
         /\ last.answer.error =
              (IF last.name = "create_user" /\ FailsOwnCheck(last.name, last.params)
               THEN CreateUserRequiredMessage
               ELSE IF last.name = "update_user" /\ FailsOwnCheck(last.name, last.params)
               THEN UpdateUserRequiredMessage
               ELSE NoMethodMessage)

\* get_wp_version answered with the message while no strategy is selected
C4_Witness ==
    /\ AdminToolCalled
    /\ wpCli.wpCliMethod = Undefined
    /\ last.name = "get_wp_version"
    /\ last.answer.kind = "error"
    /\ last.answer.error = NoMethodMessage
    /\ last.answer.ran = <<>>

\* the registry of the program handling the request: the tools registered
Registry ==
    CASE program = "wp-admin-mcp"    -> Range(adminTools)
      [] program = "enhanced-wp-mcp" -> IF server.tools THEN Range(enhancedTools)
                                        ELSE {}
      [] program = "index"           -> Range(indexTools)
      [] OTHER                       -> {}

NotFoundMessages(name) ==
    { ToolNotFoundMessage(name), <<"Error: ">> \o UnknownToolMessage(name) }

\* C5: a request naming no tool of the registry is answered with a 'tool not
\* found' error; no handler is called, no child process or database connection
\* is created, and no fault leaves the request handler.
C5_UnknownToolNotFound ==
    (last.op = "invoke" /\ last.name \notin Registry)
      => /\ last.answer.error \in NotFoundMessages(last.name)
         /\ ~last.answer.handler
         /\ last.answer.ran = <<>>
         /\ last.answer.opened = 0
         /\ ~last.answer.fault

\* C6: whatever the handler of a registered tool does, the request handler
\* answers with a well-formed response (a result, an error message or a text)
\* and no fault leaves it.
C6_AlwaysWellFormed ==
    (last.op = "invoke" /\ last.name \in Registry)
      => /\ ~last.answer.fault
         /\ last.answer.top \in { "result", "error", "content" }
         /\ last.answer.top = "error" => last.answer.error # <<>>
         /\ last.answer.top = "content" =>
              (last.answer.text # <<>> \/ last.answer.error # <<>>)

\* a method of unnamed/part_000 threw with the connection open, and the request
\* handler answered with the error as a text
C6_Witness ==
    /\ program = "index"
    /\ last.op = "invoke"
    /\ last.name = "get_table_info"
    /\ last.answer.handler
    /\ last.answer.top = "content"
    /\ last.answer.error = <<"Error: ">> \o ExecuteErrorMessage

WordChars ==
    { "s", "e", "l", "c", "t", "u", "p", "d", "a", "r", "o", "x",
      "S", "E", "L", "C", "T", "U", "P", "D", "A", "R", "O", "X", "1", "_" }

\* the leading keyword of a statement: the word its trimmed text begins with
RECURSIVE leadingWord(_)
leadingWord(s) ==
    IF s # <<>> /\ Head(s) \in WordChars THEN <<Head(s)>> \o leadingWord(Tail(s)) ELSE <<>>

leadingKeyword(sql) == toLowerCase(leadingWord(trim(sql)))

\* a statement was given to a query-forwarding tool that could reach its
\* collaborator
QueryForwarded ==
    /\ last.op \in { "invoke", "dbQuery" }
    /\ last.name \in { "execute_query", "execute_custom_query", "dbQuery" }
    /\ Get(last.params, "query").t = "string"

RejectedAsNotSelect ==
    last.answer.error \in { OnlySelectMessage, <<"Error: ">> \o OnlySelectMessage }

\* C7: a query-forwarding tool rejects a statement with the 'Only SELECT'
\* error exactly when its leading keyword is not the word SELECT (any case,
\* surrounding whitespace trimmed).
C7_AcceptsIffSelectKeyword ==
    (QueryForwarded /\ (last.op = "invoke" => last.given.connect))
      => (RejectedAsNotSelect
            <=> leadingKeyword(Get(last.params, "query").v) # <<"s", "e", "l", "e", "c", "t">>)

\* C8: during a call rejected by the read-only rule no database connection is
\* opened, no statement is executed and no command is run.
C8_RejectedNeverReaches ==
    (QueryForwarded /\ RejectedAsNotSelect)
      => /\ last.answer.opened = 0
         /\ last.answer.executed = 0
         /\ last.answer.ran = <<>>

\* C9: an invocation lacking an argument its tool's schema requires is answered
\* with an error and starts no child process.
C9_MissingRequiredRejected ==
    (AdminToolCalled /\ adminRequired(last.name) \ Keys(last.params) # {})
      => /\ last.answer.kind = "error"
         /\ last.answer.ran = <<>>

\* the arguments of a request that the tool's schema declares
declaredOnly(name, params) ==
    SelectSeq(params, LAMBDA e : e.k \in adminProperties(name))

\* C10: an invocation runs exactly the commands the same invocation runs
\* without its undeclared arguments.
C10_UndeclaredIgnored ==
    AdminToolCalled
      => last.answer.ran =
           adminCallTool(wpCli, last.name, declaredOnly(last.name, last.params),
                         last.given).answer.ran

\* wpCli.runCommand(command, options) was called directly, and what it was given
RunCommandCalled == last.op = "runCommand"

lastCommand == Get(last.params, "command").v

lastOptions == Get(last.params, "options").v

lastChild == last.given[1]

\* the call built a command line and started a child process with it
CommandBuilt == RunCommandCalled /\ last.answer.ran # <<>>

endsWith(s, suffix) ==
    /\ Len(s) >= Len(suffix)
    /\ SubSeq(s, Len(s) - Len(suffix) + 1, Len(s)) = suffix

\* the options other than the format hint that are not the boolean false
nonFalseOptions(options) ==
    SelectSeq(Rest(options, {"format"}), LAMBDA e : e.v # Bool(FALSE))

\* the token the mapping prescribes for one option that is not false
expectedToken(e) ==
    IF e.v = Bool(TRUE) THEN <<"--", e.k>>
    ELSE <<"--", e.k, "=", "\"">> \o e.v.v \o <<"\"">>

expectedTokens(options) ==
    [ i \in 1..Len(nonFalseOptions(options)) |->
        expectedToken(nonFalseOptions(options)[i]) ]

\* the text of a chunk sequence, whatever its chunking
RECURSIVE flat(_)
flat(s) == IF s = <<>> THEN "" ELSE Head(s) \o flat(Tail(s))

\* C11: the command runCommand builds holds, between the command words and the
\* format flag, exactly one token per option that is not false, in the order of
\* the options: --key for a boolean true, --key="value" for any other value;
\* a boolean false leaves no token.
C11_OptionTokens ==
    CommandBuilt =>
      flat(last.answer.ran[1]) =
        flat(withMethod(wpCli, lastCommand \o <<" ">>
                                 \o join(expectedTokens(lastOptions), <<" ">>)
                                 \o <<" ">> \o formatFlag(formatOf(lastOptions))))

\* a true, a string and a false option: two tokens in the command
C11_Witness ==
    /\ CommandBuilt
    /\ wpCli.wpCliMethod = Str(<<"direct">>)
    /\ lastOptions = << Entry("network", Bool(TRUE)), Entry("status", Str(<<"active">>)),
                        Entry("quiet", Bool(FALSE)) >>
    /\ flat(last.answer.ran[1])
         = "cd /var/www && wp plugin list --network --status=\"active\" --format=json"

\* C13: the command runCommand builds ends with --format=json when the caller
\* gives no format (absent or undefined), with --format=<f> when the caller
\* names a format f, and holds no format option exactly when the caller passed
\* an empty format ('' or null).
C13_FormatFlag ==
    CommandBuilt =>
      LET f   == Get(lastOptions, "format")
          cmd == last.answer.ran[1]
      IN  /\ f = Undefined => endsWith(cmd, <<"--format=", "json">>)
          /\ Truthy(f) => endsWith(cmd, <<"--format=">> \o f.v)
          /\ "--format=" \notin Range(cmd) <=> (f # Undefined /\ ~Truthy(f))

\* the caller passed format '' and the command carries no format option
C13_Witness ==
    /\ CommandBuilt
    /\ lastOptions = << Entry("format", Str(<<>>)) >>
    /\ "--format=" \notin Range(last.answer.ran[1])
    /\ wpCli.wpCliMethod = Str(<<"phar">>)

\* the pieces of one chunk of a command line as the shell reads it: blanks,
\* double quotes and control operators apart from the text between them
shellPieces(chunk) ==
    CASE chunk = "cd "                  -> << "cd", " " >>
      [] chunk = " && wp "              -> << " ", "&&", " ", "wp", " " >>
      [] chunk = " && php wp-cli.phar " -> << " ", "&&", " ", "php", " ", "wp-cli.phar", " " >>
      [] chunk = "docker exec -it "     -> << "docker", " ", "exec", " ", "-it", " " >>
      [] chunk = " wp "                 -> << " ", "wp", " " >>
      [] chunk = "=\""                  -> << "=", "\"" >>
      [] chunk = " \""                  -> << " ", "\"" >>
      [] chunk = "plugin get "          -> << "plugin", " ", "get", " " >>
      [] chunk = "option update "       -> << "option", " ", "update", " " >>
      [] chunk = "Local Sites"          -> << "Local", " ", "Sites" >>
      [] chunk = " Old"                 -> << " ", "Old" >>
      [] OTHER                          -> << chunk >>

RECURSIVE shellText(_)
shellText(s) == IF s = <<>> THEN <<>> ELSE shellPieces(Head(s)) \o shellText(Tail(s))

\* sh's word splitting over the pieces: blanks outside double quotes end a word,
\* a double quote opens or closes a quoted stretch, && and ; outside quotes are
\* words of their own. `open` says a word has begun, `quoted` that a quote is open.
RECURSIVE shellScan(_, _, _, _, _)
shellScan(s, words, cur, open, quoted) ==
    IF s = <<>> THEN (IF open THEN Append(words, cur) ELSE words)
    ELSE IF Head(s) = "\"" THEN shellScan(Tail(s), words, cur, TRUE, ~quoted)
    ELSE IF quoted THEN shellScan(Tail(s), words, cur \o Head(s), TRUE, TRUE)
    ELSE IF Head(s) = " "
    THEN shellScan(Tail(s), IF open THEN Append(words, cur) ELSE words, "", FALSE, FALSE)
    ELSE IF Head(s) \in { "&&", ";" }
    THEN shellScan(Tail(s),
                   Append(IF open THEN Append(words, cur) ELSE words, Head(s)),
                   "", FALSE, FALSE)
    ELSE shellScan(Tail(s), words, cur \o Head(s), TRUE, FALSE)

\* the words the shell makes of a command line
shellWords(cmd) == shellScan(shellText(cmd), <<>>, "", FALSE, FALSE)

\* the argument a non-false option should reach the CLI as
expectedArgument(e) ==
    IF e.v = Bool(TRUE) THEN flat(<<"--", e.k>>) ELSE flat(<<"--", e.k, "=">> \o e.v.v)

expectedArguments(options) ==
    [ i \in 1..Len(nonFalseOptions(options)) |->
        expectedArgument(nonFalseOptions(options)[i]) ]

expectedFormatArgument(options) ==
    IF Truthy(formatOf(options)) THEN << flat(formatFlag(formatOf(options))) >> ELSE <<>>

\* the words of the command line up to the WP-CLI command
strategyWords == shellWords(withMethod(wpCli, <<>>))

\* a tool taking a positional value was invoked with a string for it, and a
\* command was built
PositionalGiven(name, key) ==
    /\ AdminToolCalled
    /\ last.name = name
    /\ last.answer.ran # <<>>
    /\ Get(last.params, key).t = "string"

\* C12: split the way the shell does, the built command is the strategy's words,
\* the command words, and one argument per option or positional value equal to
\* that value: no value ends its own argument or adds arguments or commands.
C12_ValuesRoundTrip ==
    /\ CommandBuilt =>
         shellWords(last.answer.ran[1])
           = strategyWords \o shellWords(lastCommand)
               \o expectedArguments(lastOptions) \o expectedFormatArgument(lastOptions)
    /\ PositionalGiven("get_plugin_details", "plugin") =>
         shellWords(last.answer.ran[1])
           = strategyWords
               \o << "plugin", "get", flat(Get(last.params, "plugin").v), "--format=json" >>
    /\ PositionalGiven("update_option", "value") =>
         shellWords(last.answer.ran[1])
           = strategyWords
               \o << "option", "update", flat(Get(last.params, "option").v),
                     flat(Get(last.params, "value").v) >>

\* a call is waiting for its child process to exit
ChildRunning == last.answer.top = "pending"

\* C14: every call that started a child process returns: a call waiting for its
\* child eventually stops waiting (with the child's result, or with a timeout
\* failure once the child has been stopped), also when the child never exits.
C14_EveryCallReturns == ChildRunning ~> ~ChildRunning

\* the lines of an error stream that hold text
errorLines(stderr) == SelectSeq(split(stderr, "\n"), LAMBDA line : line # <<>>)

\* the benign-warning pattern: the line holds 'Warning:'
IsWarning(line) == "Warning:" \in Range(line)

\* the child of a direct runCommand call exited with status 0
ExitedCleanly == CommandBuilt /\ lastChild.exits /\ lastChild.code = 0

\* C15: a command that exits with status 0 and whose error stream holds only
\* warning lines is not a failure: runCommand returns its output, parsed or raw.
C15_WarningsTolerated ==
    (ExitedCleanly /\ \A i \in 1..Len(errorLines(lastChild.stderr)) :
                        IsWarning(errorLines(lastChild.stderr)[i]))
      => /\ last.answer.top = "returned"
         /\ last.answer.kind \in { "json", "raw", "output" }
         /\ last.answer.text = lastChild.stdout

\* a child wrote a warning, exited with 0, and its JSON output was returned
C15_Witness ==
    /\ ExitedCleanly
    /\ lastChild.stderr = <<"Warning:", " deprecated">>
    /\ last.answer.top = "returned"
    /\ last.answer.kind = "json"

\* C16: a command that exits with status 0 and whose error stream holds a line
\* that is no warning is a failure, whatever the other lines are.
C16_FatalLineFails ==
    (ExitedCleanly /\ \E i \in 1..Len(errorLines(lastChild.stderr)) :
                        ~IsWarning(errorLines(lastChild.stderr)[i]))
      => last.answer.top = "threw"

\* the output of the child, surrounding white space aside, is a JSON document
ValidJson(stdout) == trim(stdout) \in { <<"[1]">>, <<"{}">> }

\* a direct runCommand call expecting JSON reached the parsing of the output:
\* the child exited with status 0 and its error stream did not fail the call
ParsingJson ==
    /\ ExitedCleanly
    /\ (lastChild.stderr = <<>> \/ "Warning:" \in Range(lastChild.stderr))
    /\ formatOf(lastOptions) = Str(<<"json">>)

RawFallback ==
    /\ last.answer.top = "returned"
    /\ last.answer.kind = "raw"
    /\ last.answer.text = lastChild.stdout
    /\ last.answer.error = ParseFailedMessage

InvocationFailed ==
    /\ CommandBuilt
    /\ lastChild.exits
    /\ \/ lastChild.code # 0
       \/ (lastChild.stderr # <<>> /\ "Warning:" \notin Range(lastChild.stderr))

\* C18: when the invocation failed, runCommand raises a failure whose message is
\* the captured error-stream text, nothing added and nothing removed; it never
\* returns a value.
C18_ErrorStreamVerbatim ==
    InvocationFailed =>
      /\ last.answer.top = "threw"
      /\ last.answer.error = lastChild.stderr

\* a failure was answered to an invoke request of a server that answers with
\* {result} or {error}
FailureAnswered ==
    /\ program \in { "wp-admin-mcp", "enhanced-wp-mcp" }
    /\ last.op = "invoke"
    /\ last.answer.error # <<>>
    /\ last.answer.kind # "raw"

\* C19: every failed invocation is answered in the response's top-level error
\* field, and a response with a result field reports no failure.
C19_FailuresAtTopLevel ==
    FailureAnswered => last.answer.top = "error"

\* the tool names of the three servers in alphabetical order
namesInOrder ==
    <<
       "activate_plugin", "activate_theme", "check_database_performance",
       "create_user", "deactivate_plugin", "execute_custom_query", "execute_query",
       "get_database_info", "get_option", "get_options", "get_plugin_details",
       "get_plugins", "get_post_by_id", "get_posts", "get_posts_count",
       "get_posts_list", "get_site_info", "get_table_info", "get_table_structure",
       "get_tables", "get_theme_details", "get_themes", "get_users", "get_wp_info",
       "get_wp_version", "server_status", "update_option", "update_user" >>

\* the place of a name in the alphabet of tool names
rank(name) == CHOOSE i \in 1..Len(namesInOrder) : namesInOrder[i] = name

\* C20: the list an enumerate request returns is sorted by tool name.
C20_EnumerateSorted ==
    last.op = "enumerate" =>
      \A i \in 1..Len(last.answer.text) :
        \A j \in i..Len(last.answer.text) :
          rank(last.answer.text[i]) <= rank(last.answer.text[j])

\* C21: every database connection a tool handler opened has been closed when
\* the handler answers, whether it answers a result or an error.
C21_ConnectionsClosed ==
    last.op = "invoke" => last.answer.opened = last.answer.closed

\* the tools of the registry that change the site
MutatingTools ==
    { "activate_plugin", "deactivate_plugin", "activate_theme", "create_user",
      "update_user", "update_option" }

\* the request carries an explicit confirmation
Confirmed ==
    /\ "confirm" \in Keys(last.params)
    /\ Get(last.params, "confirm") = Bool(TRUE)

\* C25: a tool that changes the site runs no command for a request that does
\* not carry an explicit confirmation.
C25_MutationNeedsConfirmation ==
    (AdminToolCalled /\ last.name \in MutatingTools /\ ~Confirmed)
      => last.answer.ran = <<>>

\* the option was given to runCommand with the value undefined
undefinedOptions(options) ==
    { options[i].k : i \in { j \in 1..Len(options) : options[j].v = Undefined } }

\* C29: an optional argument that is undefined leaves no --key token in the
\* command: a direct runCommand call builds none for an undefined option, and
\* get_plugins without a status runs 'plugin list' with no --status.
C29_UndefinedLeavesNoToken ==
    /\ CommandBuilt =>
         \A k \in undefinedOptions(lastOptions) :
           k \notin Range(last.answer.ran[1])
    /\ (AdminToolCalled /\ last.name = "get_plugins"
          /\ "status" \notin Keys(last.params) /\ last.answer.ran # <<>>)
         => "status" \notin Range(last.answer.ran[1])

\* the working directory matches the local-development path pattern
MatchesLocalPattern == includes(wpCli.wpPath, localAppsPath)

\* C26: for a working directory that does not match the local-development path
\* pattern, detection never runs the container listing and never selects the
\* ContainerExec strategy.
C26_ContainerProbeOnlyForLocalPath ==
    (Detecting /\ ~MatchesLocalPattern)
      => /\ "docker ps" \notin Range(detection.ran)
         /\ wpCli.wpCliMethod # Str(<<"docker">>)
         /\ wpCli.dockerContainer = Null

\* a detection in another directory that went past the ContainerExec step
C26_Witness ==
    /\ Detecting
    /\ ~MatchesLocalPattern
    /\ Len(detection.probes) = 3
    /\ detection.probes[2] = Probe("docker", FALSE)

\* the segments of the working directory
pathSegments == split(wpCli.wpPath, "/")

\* the place of the marker directory among them, 0 when it is no segment
markerAt == findIndexPlusOne(pathSegments, <<"Local Sites">>)

\* there is a segment after the marker directory
HasSiteSegment == markerAt > 0 /\ markerAt < Len(pathSegments)

\* a container name contains the segment that follows the marker directory
MatchesSite(name) ==
    HasSiteSegment /\ includes(name, pathSegments[markerAt + 1])

\* the last detection read the container listing
ListingRead == Detecting /\ detection.listed # <<>>

\* the last detection ended with a ContainerExec success
ContainerProbeSucceeded ==
    /\ Detecting
    /\ detection.probes[Len(detection.probes)] = Probe("docker", TRUE)

\* C27: a ContainerExec success selects the first listed container whose name
\* contains the path segment after 'Local Sites'; when the listing holds no
\* such container the probe fails and selects nothing.
C27_FirstMatchingContainer ==
    ListingRead =>
      LET matching == SelectSeq(detection.listed[1], MatchesSite)
      IN  IF matching = <<>>
          THEN ~ContainerProbeSucceeded
          ELSE /\ ContainerProbeSucceeded
               /\ wpCli.dockerContainer = Str(matching[1])

\* C28: a container identifier is held exactly when the selected strategy is
\* ContainerExec, and it is then a non-empty name; also after initialize() has
\* run more than once on the executor.
C28_ContextMatchesStrategy ==
    /\ wpCli.dockerContainer # Null <=> wpCli.wpCliMethod = Str(<<"docker">>)
    /\ wpCli.wpCliMethod = Str(<<"docker">>) => wpCli.dockerContainer.v # <<>>

\* WordPressAdminServer.initialize() has returned or raised
AdminInitialized == program = "wp-admin-mcp" /\ server.initialized # "no"

\* the strategy detection of the last initialize() succeeded
DetectionSucceeded == Detecting /\ ~AllProbesFailed

\* C23 as stated: the admin server's initialize() never raises, gives true when
\* the configuration read and the strategy detection both succeeded and false
\* when either of them failed.
C23_FalseWhenEitherFails ==
    AdminInitialized =>
      /\ ~server.raised
      /\ server.initialized = "true"
           <=> (server.dbSettings = "parsed" /\ DetectionSucceeded)

\* C23: the admin server's initialize() never raises and gives true exactly
\* when the strategy detection succeeded; a configuration file that cannot be
\* read is replaced by the default settings and does not make it false.
C23_TrueIffDetectionSucceeds ==
    AdminInitialized =>
      /\ ~server.raised
      /\ server.initialized = "true" <=> DetectionSucceeded
      /\ server.initialized = "false" <=> AllProbesFailed
      /\ server.dbSettings \in { "parsed", "defaults" }

\* the configuration could not be read, the detection succeeded: true
C23_Witness ==
    /\ AdminInitialized
    /\ server.dbSettings = "defaults"
    /\ server.initialized = "true"
    /\ DetectionSucceeded

\* WordPressDatabaseServer.initialize() has returned or raised
EnhancedInitialized == program = "enhanced-wp-mcp" /\ server.initialized # "no"

\* C24: the enhanced server's initialize() never raises, and once it is over
\* the registry is populated and a database configuration is set, whether or
\* not the configuration could be loaded and the connection test succeeded.
C24_InitializeAlwaysRegisters ==
    EnhancedInitialized =>
      /\ ~server.raised
      /\ server.tools
      /\ server.dbConfig # "null"

\* the configuration file could not be read and the connection test failed
C24_Witness ==
    /\ EnhancedInitialized
    /\ server.dbConfig = "defaults"
    /\ ~server.connected
    /\ server.tools

\* an enumerate or invoke request is being answered by a server
RequestHandled ==
    /\ program \in { "wp-admin-mcp", "enhanced-wp-mcp", "index" }
    /\ last.op \in { "invoke", "enumerate" }

\* C30: whenever a request is handled the registry is populated: no request
\* finds it missing or empty, on any startup path.
C30_RegistryBeforeRequests ==
    RequestHandled =>
      /\ server.tools
      /\ last.answer.error # RegistryMissingMessage
      /\ last.op = "enumerate" => last.answer.text # <<>>

\* C22: an invocation never has more than one child process running: each of
\* the reads of get_site_info starts after the one before it has finished,
\* while several invocations may each have a child process running.
C22_OneChildPerInvocation ==
    \A i \in 1..MaxInvocations :
      /\ inflight[i].running <= 1
      /\ inflight[i].reads > 0 => inflight[i].running = 1

\* two invocations under way, each with its own child process running, one of
\* them at a later read
C22_Witness ==
    \E i, j \in 1..MaxInvocations :
      /\ i # j
      /\ inflight[i].running = 1
      /\ inflight[j].running = 1
      /\ inflight[i].reads >= 2

====
